---- MODULE Spec2Model ----
(***************************************************************************)
(* Model of src/index.tsx: the App component's record store (useState),    *)
(* its load and persist effects over localStorage, the CSV import          *)
(* (handleCsv, finishImport), the purge button, and the derived views      *)
(* (years, pace of spending, category comparison).                         *)
(*                                                                         *)
(* Text is a sequence of tokens.  A token is one character when the        *)
(* character is a digit, "." or "-" (or "$", ","), and a whole word (a run *)
(* of characters none of which is a digit, "." or "-") otherwise.          *)
(* Numbers are fixed point: an integer count of 10^-FracDigits units.      *)
(* Dates are evaluated in a host whose time zone is UTC.                   *)
(***************************************************************************)
EXTENDS Integers, Sequences, FiniteSets, TLC

\* ------------------------------------------------------------- bounds
MaxStore == 2       \* records the store may hold
MaxClock == 2       \* readings of Date.now()
MaxInFlight == 1    \* files being read by Papa.parse at one time
FracDigits == 2     \* decimal places a number carries

\* JavaScript numbers: a decimal integer of more than 309 digits is above
\* Number.MAX_VALUE (1.79e308) and parseFloat returns Infinity for it.
MaxFiniteDigits == 309

RECURSIVE Pow10(_)
Pow10(n) == IF n = 0 THEN 1 ELSE 10 * Pow10(n - 1)

Scale == Pow10(FracDigits)

\* ------------------------------------------------------------- numbers
Num(v) == [k |-> "num", v |-> v]
NaN == [k |-> "nan", v |-> 0]
Infinity == [k |-> "inf", v |-> 0]
Null == [k |-> "null", v |-> 0]

Digits == {"0", "1", "2", "3", "4", "5", "6", "7", "8", "9"}

DigitVal(c) ==
  CASE c = "0" -> 0 [] c = "1" -> 1 [] c = "2" -> 2 [] c = "3" -> 3
    [] c = "4" -> 4 [] c = "5" -> 5 [] c = "6" -> 6 [] c = "7" -> 7
    [] c = "8" -> 8 [] c = "9" -> 9

\* rawAmt.replace(/[^\d.-]/g, '')
StripNonNumeric(s) == SelectSeq(s, LAMBDA c : c \in Digits \cup {".", "-"})

\* the length of the longest run of characters of t from position p that
\* are all in `chars`
RunLength(t, p, chars) ==
  LET stops == {i \in p..Len(t) : t[i] \notin chars}
  IN IF stops = {} THEN Len(t) - p + 1
     ELSE (CHOOSE i \in stops : \A j \in stops : i <= j) - p

\* number of consecutive digits of t from position p
DigitRun(t, p) == RunLength(t, p, Digits)

\* number of consecutive "0" of t from position p
ZeroRun(t, p) == RunLength(t, p, {"0"})

\* the decimal value of the n digits of t that start at position p
RECURSIVE DigitsValue(_, _, _)
DigitsValue(t, p, n) ==
  IF n = 0 THEN 0 ELSE 10 * DigitsValue(t, p, n - 1) + DigitVal(t[p + n - 1])

\* parseFloat: the longest prefix  -? digits (. digits)?  with at least one
\* digit, NaN when there is none, Infinity above Number.MAX_VALUE.  The
\* value keeps the first FracDigits decimal places.
parseFloat(t) ==
  LET neg == Len(t) > 0 /\ t[1] = "-"
      p == IF neg THEN 2 ELSE 1
      in == DigitRun(t, p)
      dot == p + in <= Len(t) /\ t[p + in] = "."
      fn == IF dot THEN DigitRun(t, p + in + 1) ELSE 0
      fk == IF fn < FracDigits THEN fn ELSE FracDigits
      sig == in - ZeroRun(t, p)
  IN IF in = 0 /\ fn = 0 THEN NaN
     ELSE IF sig > MaxFiniteDigits THEN Infinity
     ELSE LET mag == DigitsValue(t, p, in) * Scale
                       + DigitsValue(t, p + in + 1, fk) * Pow10(FracDigits - fk)
          IN Num(IF neg THEN 0 - mag ELSE mag)

\* Math.abs
MathAbs(x) == IF x.k = "num" /\ x.v < 0 THEN Num(0 - x.v) ELSE x

\* x || 0 on a number: NaN and 0 are falsy
OrZero(x) == IF x.k = "nan" THEN Num(0) ELSE x

\* x > 0 (null converts to 0, NaN compares false)
GreaterThanZero(x) == x.k = "inf" \/ (x.k = "num" /\ x.v > 0)

\* a + b as the reducers compute it: null counts 0, Infinity absorbs
Plus(a, b) ==
  IF a.k = "inf" \/ b.k = "inf" THEN Infinity
  ELSE Num((IF a.k = "num" THEN a.v ELSE 0) + (IF b.k = "num" THEN b.v ELSE 0))

\* parseFloat(x.toFixed(digits)): round half up to `digits` decimal places
ToFixed(x, digits) ==
  IF x.k # "num" \/ digits >= FracDigits THEN x
  ELSE LET unit == Pow10(FracDigits - digits)
       IN Num(((2 * x.v + unit) \div (2 * unit)) * unit)

\* ------------------------------------------------------------- dates
IsLeap(y) == (y % 4 = 0 /\ y % 100 # 0) \/ y % 400 = 0

DaysInMonth(y, m) ==
  CASE m = 2 -> IF IsLeap(y) THEN 29 ELSE 28
    [] m \in {4, 6, 9, 11} -> 30
    [] OTHER -> 31

RECURSIVE DaysBeforeMonth(_, _)
DaysBeforeMonth(y, m) ==
  IF m <= 1 THEN 0 ELSE DaysBeforeMonth(y, m - 1) + DaysInMonth(y, m - 1)

\* days from the civil epoch to day d of month m of year y (d = 0 is the
\* last day of the month before, as in new Date(y, 0, 0))
DaysFromCivil(y, m, d) ==
  365 * (y - 1) + ((y - 1) \div 4) - ((y - 1) \div 100) + ((y - 1) \div 400)
    + DaysBeforeMonth(y, m) + d

\* new Date(text) for text of the form YYYY-MM-DD; any other text is an
\* Invalid Date
NewDate(text) ==
  IF /\ Len(text) = 10
     /\ text[5] = "-" /\ text[8] = "-"
     /\ \A i \in {1, 2, 3, 4, 6, 7, 9, 10} : text[i] \in Digits
  THEN [valid |-> TRUE, y |-> DigitsValue(text, 1, 4),
        m |-> DigitsValue(text, 6, 2), d |-> DigitsValue(text, 9, 2)]
  ELSE [valid |-> FALSE, y |-> 0, m |-> 0, d |-> 0]

\* Date.getFullYear(); NaNYear stands for the NaN of an Invalid Date
NaNYear == 0 - 1
getFullYear(date) == IF date.valid THEN date.y ELSE NaNYear

\* a === b on years: NaN equals nothing
SameYear(a, b) == a # NaNYear /\ b # NaNYear /\ a = b

getDayOfYear(date) ==
  IF ~date.valid THEN NaNYear
  ELSE LET start == DaysFromCivil(date.y, 1, 0)
           diff == DaysFromCivil(date.y, date.m, date.d) - start
       IN diff

\* ------------------------------------------------------------- records
CATEGORIES ==
  << <<"Groceries">>, <<"Rent">>, <<"Utilities">>, <<"Transportation">>,
     <<"Entertainment">>, <<"Healthcare">>, <<"Shopping">>, <<"Dining">>,
     <<"Travel">>, <<"Subscriptions">>, <<"Income">>, <<"Transfer">>,
     <<"Other">> >>

\* interface Expense
Expense(id, date, description, amount, category) ==
  [id |-> id, date |-> date, description |-> description, amount |-> amount,
   category |-> category, account |-> "Imported"]

\* `txn-${Date.now()}-${i}`: the two numbers, which the text determines
TxnId(now, i) == [ts |-> now, i |-> i]

\* new Date().toISOString().split('T')[0]
Today == <<"2", "0", "2", "5", "-", "0", "3", "-", "0", "1">>

\* ------------------------------------------------------------- uploads
Headers == <<"Date", "Amount", "Desc", "Cat">>

Row(date, amount, desc, cat) ==
  [Date |-> date, Amount |-> amount, Desc |-> desc, Cat |-> cat]

HugeAmount == [i \in 1..(MaxFiniteDigits + 1) |-> "9"]

\* sample rows: the two rows of the specification's example, a row dated
\* December 31 of a leap year with a negative amount, a category outside
\* CATEGORIES and no description, and a row with an amount too large for a
\* number and no date and no category
Coffee ==
  Row(<<"2", "0", "2", "4", "-", "0", "1", "-", "0", "5">>,
      <<"$", "5", "0", ".", "0", "0">>, <<"Coffee">>, <<"Dining">>)
Bad ==
  Row(<<"2", "0", "2", "4", "-", "0", "1", "-", "0", "5">>,
      <<"abc">>, <<"Bad">>, <<"Other">>)
Gym ==
  Row(<<"2", "0", "2", "4", "-", "1", "2", "-", "3", "1">>,
      <<"-", "5">>, <<>>, <<"Gym">>)
Wire == Row(<<>>, HugeAmount, <<"Wire">>, <<>>)

\* what the user picked: a CSV file (one of them with a header row only), a
\* file with a malformed row, a file with no header row (empty), or a file
\* the FileReader cannot read
Files ==
  [kind : {"csv"},
   rows : {<<>>, <<Coffee, Bad>>, <<Bad>>, <<Bad, Gym>>, <<Coffee, Gym>>, <<Wire>>}]
    \cup {[kind |-> "malformed", rows |-> <<Coffee>>],
          [kind |-> "empty", rows |-> <<>>],
          [kind |-> "unreadable", rows |-> <<>>]}

\* the result object Papa.parse hands to `complete`
PapaResult(file) ==
  [open |-> TRUE,
   data |-> file.rows,
   errors |-> CASE file.kind = "csv" -> <<>>
                [] file.kind = "malformed" -> <<"Quotes">>
                [] OTHER -> <<"Delimiter">>,
   fields |-> IF file.kind = "empty" THEN <<>> ELSE Headers]

NoImport == [open |-> FALSE, data |-> <<>>, errors |-> <<>>, fields |-> <<>>]

\* row[column]: undefined (here the empty text, equally falsy) when the row
\* has no such column
Cell(row, column) == IF column \in DOMAIN row THEN row[column] ELSE <<>>

\* the values the four <select> elements can hold
MappingFields == {"date", "amount", "description", "category"}
Options(fields) == IF fields = <<>> THEN {""} ELSE {fields[i] : i \in DOMAIN fields}
Mappings(fields) ==
  {m \in [MappingFields -> Options(fields)] :
     \/ fields = <<>>
     \/ /\ m.date = "Date" /\ m.description = "Desc" /\ m.category = "Cat"
        /\ m.amount \in {"Amount", "Desc"}}

\* ------------------------------------------------------------- JSON
\* JSON.stringify(expenses): a number that is not finite is written as null
JsonNumber(x) == IF x.k = "num" THEN x ELSE Null

JSONstringify(exps) ==
  [kind |-> "array",
   val |-> [i \in 1..Len(exps) |-> [exps[i] EXCEPT !.amount = JsonNumber(@)]]]

NoItem == [kind |-> "absent", val |-> <<>>]
Malformed == [kind |-> "malformed", val |-> <<>>]
NonArray == [kind |-> "nonarray", val |-> <<>>]

\* the load effect's outcome: [set |-> TRUE, val |-> parsed] when it calls
\* setExpenses(parsed)
LoadEffect(saved) ==
  IF saved.kind = "absent" THEN [set |-> FALSE, val |-> <<>>]       \* if (saved)
  ELSE IF saved.kind = "malformed" THEN [set |-> FALSE, val |-> <<>>] \* catch
  ELSE IF saved.kind = "array" THEN [set |-> TRUE, val |-> saved.val]
  ELSE [set |-> FALSE, val |-> <<>>]                                \* !isArray

\* ------------------------------------------------------------- views
RECURSIVE SortDescending(_)
SortDescending(S) ==
  IF S = {} THEN <<>>
  ELSE LET m == CHOOSE x \in S : \A y \in S : y <= x
       IN <<m>> \o SortDescending(S \ {m})

\* Array.from(new Set(expenses.map(e => new Date(e.date).getFullYear())))
\*   .sort((a, b) => b - a)
YearsOf(exps) ==
  SortDescending({getFullYear(NewDate(exps[i].date)) : i \in 1..Len(exps)})

\* expenses.filter(e => new Date(e.date).getFullYear() === y)
InYear(exps, y) ==
  SelectSeq(exps, LAMBDA e : SameYear(getFullYear(NewDate(e.date)), y))

\* .reduce((s, e) => s + e.amount, 0)
RECURSIVE SumAmounts(_)
SumAmounts(exps) ==
  IF exps = <<>> THEN Num(0)
  ELSE Plus(SumAmounts(SubSeq(exps, 1, Len(exps) - 1)), exps[Len(exps)].amount)

DaySlots == 367
PaceSamples == 74
SampleStep == 5

\* PaceOfSpendingChart: yearCumulative[y][d].  The forEach adds each amount
\* of year y to the slot of its day when the day is within 0..366, and the
\* loop `curr += arr[i]; arr[i] = curr` turns the slots into running totals:
\* slot d ends as the sum of the amounts whose day is a slot at or before d.
YearCumulative(exps, y, d) ==
  SumAmounts(SelectSeq(InYear(exps, y),
                       LAMBDA e : LET day == getDayOfYear(NewDate(e.date))
                                  IN day >= 0 /\ day <= DaySlots - 1 /\ day <= d))

\* the chart's data: sample i is day i * 5, and carries for each year
\* parseFloat(yearCumulative[y][d]?.toFixed(0) || '0')
PaceData(exps, yrs) ==
  [i \in 0..(PaceSamples - 1) |->
     [day |-> i * SampleStep,
      value |-> [k \in DOMAIN yrs |->
                   IF i * SampleStep <= DaySlots - 1
                   THEN ToFixed(YearCumulative(exps, yrs[k], i * SampleStep), 0)
                   ELSE Num(0)]]]

\* a comparator result b - a below 0: a sorts before b (Infinity - Infinity
\* is NaN, which sort takes for 0)
SortsBefore(ka, kb) ==
  \/ ka.k = "inf" /\ kb.k # "inf"
  \/ ka.k = "num" /\ kb.k = "num" /\ ka.v > kb.v

\* Array.prototype.sort, which is stable, on rows that carry their sort key:
\* the last row is inserted into the sorted rows before it, after every row
\* that it does not sort before
RECURSIVE SortRows(_)
SortRows(rows) ==
  IF Len(rows) <= 1 THEN rows
  ELSE LET head == SortRows(SubSeq(rows, 1, Len(rows) - 1))
           last == rows[Len(rows)]
           pos == Cardinality({i \in DOMAIN head :
                                 ~SortsBefore(last.key, head[i].key)})
       IN SubSeq(head, 1, pos) \o <<last>> \o SubSeq(head, pos + 1, Len(head))

\* CategoryComparisonChart: one row per entry of CATEGORIES, the rows with
\* no positive year dropped, sorted by the first (newest) year, descending
CategoryData(exps, yrs) ==
  LET entry(cat) ==
        [category |-> cat,
         totals |-> [k \in DOMAIN yrs |->
            ToFixed(SumAmounts(SelectSeq(InYear(exps, yrs[k]),
                                         LAMBDA e : e.category = cat)), 2)]]
      all == [i \in DOMAIN CATEGORIES |-> entry(CATEGORIES[i])]
      kept == SelectSeq(all, LAMBDA d : \E k \in DOMAIN yrs : GreaterThanZero(d.totals[k]))
      \* b[currentYear] || 0, currentYear = years[0]
      keyed == [i \in DOMAIN kept |->
                  [key |-> IF yrs = <<>> THEN Num(0) ELSE OrZero(kept[i].totals[1]),
                   row |-> kept[i]]]
      sorted == SortRows(keyed)
  IN [i \in DOMAIN sorted |-> sorted[i].row]

\* ------------------------------------------------------------- state
VARIABLES
  storage,      \* localStorage item 'yoy_finance_v2'
  phase,        \* where the session is: "mounted", "loading", "loadRendered", "ready"
  pendingLoad,  \* the array the load effect passed to setExpenses, not yet rendered
  expenses,     \* useState<Expense[]>
  tab,          \* useState<'dash' | 'list'>
  importing,    \* useState<any>: the Papa.parse result behind the mapping dialog
  parsing,      \* files Papa.parse is still reading
  years,        \* useMemo: the distinct-years list of the last render
  clock,        \* the last reading of Date.now()
  lastOp,       \* the handler or effect that ran last, with the mapping it was given
  prevStore     \* the store the previous session held when it ended right after an import

vars ==
  <<storage, phase, pendingLoad, expenses, tab, importing, parsing, years,
    clock, lastOp, prevStore>>

\* lastOp and prevStore are history variables: no handler reads them
NoMapping == [f \in MappingFields |-> ""]
Op(name) == [name |-> name, mapping |-> NoMapping]
NoPrev == [valid |-> FALSE, recs |-> <<>>]

Init ==
  /\ storage \in {NoItem, Malformed, NonArray}
  /\ phase = "mounted"
  /\ pendingLoad = <<>>
  /\ expenses = <<>>
  /\ tab = "dash"
  /\ importing = NoImport
  /\ parsing = 0
  /\ years = YearsOf(<<>>)
  /\ clock = 1
  /\ lastOp = Op("render")
  /\ prevStore = NoPrev

\* The page is reloaded (or closed and opened again): root.render(<App />)
\* renders with the initial state of every useState; localStorage survives.
Reload ==
  /\ phase' = "mounted"
  /\ pendingLoad' = <<>>
  /\ expenses' = <<>>
  /\ tab' = "dash"
  /\ importing' = NoImport
  /\ parsing' = 0
  /\ years' = YearsOf(<<>>)
  /\ lastOp' = Op("reload")
  /\ prevStore' = IF lastOp.name = "finishImport"
                  THEN [valid |-> TRUE, recs |-> expenses] ELSE NoPrev
  /\ UNCHANGED <<storage, clock>>

\* The two effects of the first commit, in declaration order: the load
\* effect reads the item and queues setExpenses(parsed); the persist effect
\* writes the expenses of the first render.
MountEffects ==
  /\ phase = "mounted"
  /\ LET load == LoadEffect(storage)
     IN /\ pendingLoad' = load.val
        /\ phase' = IF load.set THEN "loading" ELSE "ready"
  /\ storage' = JSONstringify(expenses)
  /\ lastOp' = Op("mountEffects")
  /\ UNCHANGED <<expenses, tab, importing, parsing, years, clock, prevStore>>

\* The render of the queued setExpenses(parsed).
LoadRender ==
  /\ phase = "loading"
  /\ expenses' = pendingLoad
  /\ pendingLoad' = <<>>
  /\ years' = YearsOf(expenses')
  /\ phase' = "loadRendered"
  /\ lastOp' = Op("loadRender")
  /\ UNCHANGED <<storage, tab, importing, parsing, clock, prevStore>>

\* The persist effect of that render; React runs the effects of a render
\* that no user interaction caused after the browser has painted.
PersistEffect ==
  /\ phase = "loadRendered"
  /\ storage' = JSONstringify(expenses)
  /\ phase' = "ready"
  /\ lastOp' = Op("persistEffect")
  /\ UNCHANGED <<pendingLoad, expenses, tab, importing, parsing, years, clock, prevStore>>

\* handleCsv: the change event of the file input.  It sets no state, so it
\* can run between a commit and that commit's effects; the handlers below
\* set state, and React runs the pending effects before it renders them, so
\* they are taken once the session is "ready".
handleCsv(hasFile) ==
  /\ hasFile => parsing < MaxInFlight
  /\ parsing' = IF hasFile THEN parsing + 1 ELSE parsing   \* if (!file) return
  /\ lastOp' = Op("handleCsv")
  /\ prevStore' = NoPrev
  /\ UNCHANGED <<storage, phase, pendingLoad, expenses, tab, importing, years, clock>>

\* Papa.parse finishes with the file: complete: res => setImporting(res).
\* A file the FileReader cannot read ends in the `error` callback, which
\* the call does not pass.
ParseComplete(file) ==
  /\ phase = "ready"
  /\ parsing > 0
  /\ parsing' = parsing - 1
  /\ importing' = IF file.kind = "unreadable" THEN importing ELSE PapaResult(file)
  /\ lastOp' = Op(IF file.kind = "unreadable" THEN "parseError" ELSE "parseComplete")
  /\ prevStore' = NoPrev
  /\ UNCHANGED <<storage, phase, pendingLoad, expenses, tab, years, clock>>

\* the Cancel button of the mapping dialog
CancelImport ==
  /\ phase = "ready"
  /\ importing.open
  /\ importing' = NoImport
  /\ lastOp' = Op("cancel")
  /\ prevStore' = NoPrev
  /\ UNCHANGED <<storage, phase, pendingLoad, expenses, tab, parsing, years, clock>>

\* the amount of one row, as finishImport computes it
AmountOf(row, mapping) ==
  LET cell == Cell(row, mapping.amount)
      rawAmt == StripNonNumeric(IF cell = <<>> THEN <<"0">> ELSE cell)
  IN OrZero(MathAbs(parseFloat(rawAmt)))

\* the record finishImport makes of row i (from 0)
NewExpense(row, mapping, now, i) ==
  Expense(TxnId(now, i),
          IF Cell(row, mapping.date) = <<>> THEN Today ELSE Cell(row, mapping.date),
          IF Cell(row, mapping.description) = <<>> THEN <<"No Desc">>
          ELSE Cell(row, mapping.description),
          AmountOf(row, mapping),
          IF Cell(row, mapping.category) = <<>> THEN <<"Other">>
          ELSE Cell(row, mapping.category))

\* the filter as `e.amount >= 0`
KeepExpenseNotNegative(e) == e.amount.k \in {"num", "inf"} /\ e.amount.v >= 0

\* .filter((e: Expense) => e.amount > 0)
KeepExpense(e) == GreaterThanZero(e.amount)

NewEx(data, mapping, now) ==
  SelectSeq([i \in 1..Len(data) |-> NewExpense(data[i], mapping, now, i - 1)],
            KeepExpense)

\* finishImport, the render it causes and that render's persist effect
\* (React runs the effects of a click's render before the click returns).
\* `now` is what Date.now() returns: the last reading or a later one.
finishImport(mapping, now) ==
  /\ phase = "ready"
  /\ importing.open
  /\ clock' = now
  /\ LET newEx == NewEx(importing.data, mapping, now)
     IN /\ Len(expenses) + Len(newEx) <= MaxStore
        /\ expenses' = expenses \o newEx
  /\ importing' = NoImport
  /\ years' = YearsOf(expenses')
  /\ storage' = JSONstringify(expenses')
  /\ lastOp' = [name |-> "finishImport", mapping |-> mapping]
  /\ prevStore' = NoPrev
  /\ UNCHANGED <<phase, pendingLoad, tab, parsing>>

\* the DASHBOARD and DATA LIST buttons
SetTab(t) ==
  /\ phase = "ready"
  /\ tab' = t
  /\ lastOp' = Op("setTab")
  /\ prevStore' = NoPrev
  /\ UNCHANGED <<storage, phase, pendingLoad, expenses, importing, parsing, years, clock>>

\* the PURGE button without the test of confirm()
PurgeUnconfirmed(confirmed) ==
  /\ phase = "ready"
  /\ tab = "list" /\ Len(expenses) # 0
  /\ expenses' = <<>>
  /\ years' = YearsOf(expenses')
  /\ storage' = JSONstringify(expenses')
  /\ lastOp' = Op(IF confirmed THEN "purge" ELSE "purgeDeclined")
  /\ prevStore' = NoPrev
  /\ UNCHANGED <<phase, pendingLoad, tab, importing, parsing, clock>>

\* the PURGE button, rendered on the list tab of a store that is not empty:
\* confirm("Purge data?") && setExpenses([])
Purge(confirmed) ==
  /\ phase = "ready"
  /\ tab = "list" /\ Len(expenses) # 0
  /\ expenses' = IF confirmed THEN <<>> ELSE expenses
  /\ years' = YearsOf(expenses')
  /\ storage' = IF confirmed THEN JSONstringify(expenses') ELSE storage
  /\ lastOp' = Op(IF confirmed THEN "purge" ELSE "purgeDeclined")
  /\ prevStore' = NoPrev
  /\ UNCHANGED <<phase, pendingLoad, tab, importing, parsing, clock>>

Next ==
  \/ Reload
  \/ MountEffects
  \/ LoadRender
  \/ PersistEffect
  \/ \E hasFile \in BOOLEAN : handleCsv(hasFile)
  \/ \E file \in Files : ParseComplete(file)
  \/ CancelImport
  \/ \E mapping \in Mappings(importing.fields), now \in clock..MaxClock :
       finishImport(mapping, now)
  \/ \E t \in {"dash", "list"} : SetTab(t)
  \/ \E confirmed \in BOOLEAN : Purge(confirmed)

Spec == Init /\ [][Next]_vars

\* ------------------------------------------------------------- claims

\* C1: every record the store holds has amount > 0.
C1_AmountPositive ==
  \A i \in DOMAIN expenses : GreaterThanZero(expenses[i].amount)

\* C2: when a session ends right after an import and the next session has
\* loaded the persisted state, the store holds the records the store held
\* right after the import, in the same order.
C2_RoundTrip ==
  (prevStore.valid /\ phase \in {"loadRendered", "ready"})
    => expenses = prevStore.recs

\* C3: write-through: once a mutation of the store (the initial load, an
\* import, a purge) has been applied, the item in localStorage is the
\* serialization of the store.
C3_WriteThrough ==
  phase \in {"loadRendered", "ready"} => storage = JSONstringify(expenses)

\* the characters of a cell that are a digit, a decimal point or a minus sign
NumericChars(cell) ==
  SelectSeq(cell, LAMBDA c : c \in {"0", "1", "2", "3", "4", "5", "6", "7", "8",
                                    "9", ".", "-"})

\* t starts with a number that is not zero: some digit 1..9 of t has before
\* it only digits, at most one decimal point, and a minus sign in first place
NonZeroNumber(t) ==
  \E k \in DOMAIN t :
    /\ t[k] \in {"1", "2", "3", "4", "5", "6", "7", "8", "9"}
    /\ \A j \in 1..(k - 1) :
         \/ t[j] \in {"0", "1", "2", "3", "4", "5", "6", "7", "8", "9"}
         \/ t[j] = "-" /\ j = 1
         \/ t[j] = "." /\ \A h \in 1..(j - 1) : t[h] # "."

\* the rows (from 1) whose mapped amount parses to a number that is not zero
RowsWithAmount(data, mapping) ==
  {r \in DOMAIN data : NonZeroNumber(NumericChars(Cell(data[r], mapping.amount)))}

\* C4: confirming an import appends to the store one record per row whose
\* mapped amount, stripped, parses to a number that is not zero, in row
\* order, and nothing else; with no such row the store stays as it was.
C4_ImportAppends ==
  [][lastOp'.name = "finishImport" =>
       LET rows == RowsWithAmount(importing.data, lastOp'.mapping)
           n == Len(expenses)
       IN /\ Len(expenses') = n + Cardinality(rows)
          /\ SubSeq(expenses', 1, n) = expenses
          /\ \A j \in 1..Cardinality(rows) :
               LET r == expenses'[n + j].id.i + 1
               IN r \in rows /\ Cardinality({q \in rows : q < r}) = j - 1
          /\ (rows = {} => expenses' = expenses)]_vars

\* a file with an excluded row before a kept one has been imported: the
\* store holds a record of row 1 and none of row 0 of that import
C4_Witness ==
  /\ lastOp.name = "finishImport"
  /\ \E i \in DOMAIN expenses :
       /\ expenses[i].id.i = 1
       /\ \A j \in DOMAIN expenses :
            expenses[j].id.ts = expenses[i].id.ts => expenses[j].id.i # 0

\* C5: for every year of the years list, the last sample of the pace of
\* spending series equals (to the whole unit the chart rounds to) the sum of
\* the amounts of that year's records.
C5_PaceEndsAtTotal ==
  \A k \in DOMAIN years :
    PaceData(expenses, years)[PaceSamples - 1].value[k]
      = ToFixed(SumAmounts(InYear(expenses, years[k])), 0)

\* C6: every category that occurs in the store and whose sum is positive in
\* some year of the years list has a row in the category comparison carrying
\* its sums per year.
C6_CategoryIncluded ==
  \A i \in DOMAIN expenses :
    LET cat == expenses[i].category
        sum(k) == ToFixed(SumAmounts(SelectSeq(InYear(expenses, years[k]),
                                               LAMBDA e : e.category = cat)), 2)
        data == CategoryData(expenses, years)
    IN (\E k \in DOMAIN years : GreaterThanZero(sum(k)))
         => \E d \in DOMAIN data :
              /\ data[d].category = cat
              /\ \A k \in DOMAIN years : data[d].totals[k] = sum(k)

\* C7: the mapping dialog is open only on the result of a parse that did not
\* fail.
C7_DialogOnlyAfterSuccess == importing.open => importing.errors = <<>>

\* C8: no two records of the store have the same id.
C8_UniqueIds ==
  \A i, j \in DOMAIN expenses : i # j => expenses[i].id # expenses[j].id

\* C9: within a session the store's records change only when the load is
\* rendered, an import is confirmed or a purge is confirmed; selecting a
\* file, a parse result, cancelling, declining the purge and switching tabs
\* leave the store and the persisted item as they were, and cancelling
\* closes the dialog and drops the pending import.
C9_Frame ==
  [][/\ lastOp'.name \in {"handleCsv", "parseComplete", "parseError", "cancel",
                          "purgeDeclined", "setTab"}
          => expenses' = expenses /\ storage' = storage
     /\ (lastOp'.name # "reload" /\ expenses' # expenses)
          => lastOp'.name \in {"loadRender", "finishImport", "purge"}
     /\ lastOp'.name = "cancel" => importing' = NoImport]_vars

\* the purge of a store that holds records has been declined
C9_Witness ==
  /\ lastOp.name = "purgeDeclined"
  /\ expenses # <<>>
  /\ storage = JSONstringify(expenses)

\* C10: no view is computed before the persisted records are in the store:
\* in no state of a session (every one follows a render, which computes the
\* years list) are persisted records still waiting to be loaded or rendered.
C10_LoadBeforeViews ==
  /\ phase = "mounted" => LoadEffect(storage).val = <<>>
  /\ phase = "loading" => pendingLoad = <<>>

\* C11: from the start of a session until the loaded records are in the
\* store, localStorage still holds the array that was persisted: while the
\* load effect's setExpenses(parsed) waits to be rendered, the item is the
\* array the load effect read.
C11_PersistedKeptDuringLoad ==
  phase = "loading" => storage = [kind |-> "array", val |-> pendingLoad]

====
